---- MODULE Spec2Model ----
(***************************************************************************)
(* A model of the generic parsing engine of lk16/parser.                   *)
(*                                                                         *)
(* The repository holds two generations of the engine:                     *)
(*   - src/parser/parser/parser.py : class Parser, driven by Expression    *)
(*     objects (_parse, _parse_conjunction, _parse_repeat, ...), with the  *)
(*     pruning functions _prune_no_token_type and _prune_by_token_types;   *)
(*   - src/parser/parser.py : the Parser subclasses (OrParser,             *)
(*     RepeatParser, OptionalParser, ConcatenationParser, TerminalParser,  *)
(*     NonTerminalParser), tokenize and parse_generic.                     *)
(* Both are modelled, each operator named after the code it translates.    *)
(*                                                                         *)
(* Python raises are modelled as result records: a result is either        *)
(*   [ok |-> TRUE,  tree |-> t]                       (a returned Tree)    *)
(*   [ok |-> FALSE, exc |-> name, offset |-> n]       (a raised exception) *)
(* where exc is "ParseError" / "InternalParseError" (the exceptions the    *)
(* engines catch) or "IndexError" (tokens[offset] past the end of the      *)
(* list, which no except clause of the engines catches).                   *)
(* Python indexes from 0, TLA+ sequences from 1: tokens[offset] in the     *)
(* code is tokens[offset + 1] here.                                        *)
(***************************************************************************)
EXTENDS Integers, Sequences, FiniteSets, TLC

VARIABLES
    mode,            \* which operation of the engine this behaviour exercises
    pc,              \* position of that operation
    tokens,          \* List[Token]: records [type, offset, length]
    code,            \* the source text, a sequence of characters
    rules,           \* non_terminal_rules: symbol -> expression (a function)
    expr,            \* the expression handed to the engine
    offset,          \* the token offset handed to the engine
    result,          \* what the operation returned or raised
    child_offset,    \* RepeatParser.parse / _parse_repeat: local child_offset
    sub_trees,       \* RepeatParser.parse / _parse_repeat: collected children
    tk_offset,       \* tokenize: local offset
    tk_tokens,       \* tokenize: local tokens
    tk_rule,         \* tokenize: index of the rule the for loop is at
    terminal_rules,  \* tokenize: the list of (token_type, RegexTokenizer)
    pruned,          \* pruned_terminals / pruned_non_terminals
    keys,            \* the keys of non_terminal_rules, in insertion order
    tree             \* Parser.parse / parse_generic: the raw tree, root tagged

inputs == <<mode, tokens, code, rules, expr, offset, keys,
            terminal_rules, pruned>>
rpVars == <<child_offset, sub_trees>>
tkVars == <<tk_offset, tk_tokens, tk_rule>>
vars == <<inputs, pc, result, rpVars, tkVars, tree>>

(***************************************************************************)
(* Bounds of the model.                                                    *)
(***************************************************************************)
MaxTokens == 3       \* longest token list
MaxIter == 3         \* cap on the iterations of a stepwise repeat loop
MaxCode == 3         \* longest source text handed to tokenize
MaxKeys == 4         \* most entries of a validated rule table

None == "None"
\* None where a Tree is expected, and where a set of symbol types is expected
NoTree == [none |-> TRUE]
NoSet == {None}

(***************************************************************************)
(* Symbol types.  Terminals and non-terminals of the grammars used.        *)
(***************************************************************************)
NUMBER == "NUMBER"
PLUS == "PLUS"
ROOT == "ROOT"
ITEM == "ITEM"
SIGN == "SIGN"
Terminals == {NUMBER, PLUS}

(***************************************************************************)
(* Tree(token_offset, token_count, token_type, children)                   *)
(***************************************************************************)
Tree(o, c, t, ch) ==
    [token_offset |-> o, token_count |-> c, token_type |-> t, children |-> ch]

Ok(t) == [ok |-> TRUE, tree |-> t]
Raise(e, o) == [ok |-> FALSE, exc |-> e, offset |-> o]
NoResult == [ok |-> FALSE, exc |-> "none", offset |-> 0]

(***************************************************************************)
(* Expressions (src/parser/parser/parser.py: the *Expression classes;      *)
(* src/parser/parser.py: the Parser subclasses).  token_type is the        *)
(* Parser.token_type field: None unless the constructor sets it.           *)
(***************************************************************************)
Terminal(s) == [k |-> "Terminal", token_type |-> s, ch |-> <<>>, min_repeats |-> 0]
NonTerminal(s) == [k |-> "NonTerminal", token_type |-> s, ch |-> <<>>, min_repeats |-> 0]
Concatenation(ch) == [k |-> "Concatenation", token_type |-> None, ch |-> ch, min_repeats |-> 0]
Alternation(ch) == [k |-> "Alternation", token_type |-> None, ch |-> ch, min_repeats |-> 0]
Optional(c) == [k |-> "Optional", token_type |-> None, ch |-> <<c>>, min_repeats |-> 0]
Repetition(c, m) == [k |-> "Repetition", token_type |-> None, ch |-> <<c>>, min_repeats |-> m]

(***************************************************************************)
(* The engine of src/parser/parser/parser.py (class Parser).               *)
(***************************************************************************)
RECURSIVE Parser_parse_expr(_, _, _, _)
RECURSIVE Parser_conjunction_loop(_, _, _, _, _)
RECURSIVE Parser_repeat_loop(_, _, _, _, _)
RECURSIVE Parser_concatenation_loop(_, _, _, _, _, _)

\* _parse_terminal
Parser_parse_terminal(toks, e, off) ==
    IF toks[off + 1].type # e.token_type
    THEN Raise("ParseError", off)
    ELSE Ok(Tree(off, 1, e.token_type, <<>>))

\* _parse_non_terminal
Parser_parse_non_terminal(toks, rl, e, off) ==
    LET child == Parser_parse_expr(toks, rl, rl[e.token_type], off)
    IN  IF child.ok
        THEN Ok(Tree(child.tree.token_offset, child.tree.token_count,
                     e.token_type, <<child.tree>>))
        ELSE child

\* the for loop of _parse_conjunction: the first child that parses is kept
\* (break); None when every child raised ParseError.
Parser_conjunction_loop(toks, rl, chs, i, off) ==
    IF i > Len(chs) THEN Raise("ParseError", off)
    ELSE LET parsed == Parser_parse_expr(toks, rl, chs[i], off)
         IN  IF parsed.ok THEN parsed
             ELSE IF parsed.exc = "ParseError"
                  THEN Parser_conjunction_loop(toks, rl, chs, i + 1, off)
                  ELSE parsed

\* _parse_conjunction
Parser_parse_conjunction(toks, rl, e, off) ==
    LET parsed == Parser_conjunction_loop(toks, rl, e.ch, 1, off)
    IN  IF parsed.ok
        THEN Ok(Tree(parsed.tree.token_offset, parsed.tree.token_count,
                     None, <<parsed.tree>>))
        ELSE parsed

\* one pass of the while loop of _parse_repeat, from (child_offset, children):
\* "stop" is the break, "raise" an exception the loop does not catch.
Parser_repeat_iteration(toks, rl, child, coff, children) ==
    LET parsed == Parser_parse_expr(toks, rl, child, coff)
    IN  IF parsed.ok
        THEN [next |-> "loop", child_offset |-> coff + parsed.tree.token_count,
              children |-> Append(children, parsed.tree), raised |-> NoResult]
        ELSE IF parsed.exc = "ParseError"
             THEN [next |-> "stop", child_offset |-> coff,
                   children |-> children, raised |-> NoResult]
             ELSE [next |-> "raise", child_offset |-> coff,
                   children |-> children, raised |-> parsed]

\* what _parse_repeat returns once the loop has stopped
Parser_repeat_return(e, off, coff, children) ==
    Ok(Tree(off, coff - off, None, children))

Parser_repeat_loop(toks, rl, e, off, st) ==
    LET it == Parser_repeat_iteration(toks, rl, e.ch[1], st.child_offset, st.children)
    IN  CASE it.next = "loop" -> Parser_repeat_loop(toks, rl, e, off, it)
          [] it.next = "stop" -> Parser_repeat_return(e, off, it.child_offset, it.children)
          [] OTHER -> it.raised

\* _parse_repeat
Parser_parse_repeat(toks, rl, e, off) ==
    Parser_repeat_loop(toks, rl, e, off,
                       [child_offset |-> off, children |-> <<>>])

\* _parse_optional
Parser_parse_optional(toks, rl, e, off) ==
    LET parsed == Parser_parse_expr(toks, rl, e.ch[1], off)
    IN  IF parsed.ok
        THEN Ok(Tree(off, parsed.tree.token_count, None, <<parsed.tree>>))
        ELSE IF parsed.exc = "ParseError"
             THEN Ok(Tree(off, 0, None, <<>>))
             ELSE parsed

Parser_concatenation_loop(toks, rl, chs, i, coff, trees) ==
    IF i > Len(chs) THEN [ok |-> TRUE, child_offset |-> coff, trees |-> trees]
    ELSE LET parsed == Parser_parse_expr(toks, rl, chs[i], coff)
         IN  IF parsed.ok
             THEN Parser_concatenation_loop(toks, rl, chs, i + 1,
                      coff + parsed.tree.token_count, Append(trees, parsed.tree))
             ELSE parsed

\* _parse_concatenation
Parser_parse_concatenation(toks, rl, e, off) ==
    LET r == Parser_concatenation_loop(toks, rl, e.ch, 1, off, <<>>)
    IN  IF r.ok THEN Ok(Tree(off, r.child_offset - off, None, r.trees))
        ELSE r

\* _parse
Parser_parse_expr(toks, rl, e, off) ==
    IF off >= Len(toks)
    THEN IF e.k \in {"Repetition", "Optional"}
         THEN Ok(Tree(off, 0, None, <<>>))
         ELSE Raise("ParseError", off)
    ELSE CASE e.k = "Concatenation" -> Parser_parse_concatenation(toks, rl, e, off)
           [] e.k = "Alternation" -> Parser_parse_conjunction(toks, rl, e, off)
           [] e.k = "NonTerminal" -> Parser_parse_non_terminal(toks, rl, e, off)
           [] e.k = "Optional" -> Parser_parse_optional(toks, rl, e, off)
           [] e.k = "Repetition" -> Parser_parse_repeat(toks, rl, e, off)
           [] e.k = "Terminal" -> Parser_parse_terminal(toks, e, off)

(***************************************************************************)
(* The engine of src/parser/parser.py (the Parser subclasses).             *)
(* e.parse(tokens, offset, non_terminal_rules) is XParse(toks, rl, e, off).*)
(***************************************************************************)
RECURSIVE XParse(_, _, _, _)
RECURSIVE OrParser_loop(_, _, _, _, _, _)
RECURSIVE RepeatParser_loop(_, _, _, _, _)
RECURSIVE ConcatenationParser_loop(_, _, _, _, _, _)

\* TerminalParser.parse: tokens[offset] raises IndexError past the end
TerminalParser_parse(toks, e, off) ==
    IF off >= Len(toks) THEN Raise("IndexError", off)
    ELSE IF toks[off + 1].type # e.token_type
         THEN Raise("InternalParseError", off)
         ELSE Ok(Tree(off, 1, e.token_type, <<>>))

\* NonTerminalParser.parse: the rule's own result, not wrapped
NonTerminalParser_parse(toks, rl, e, off) ==
    XParse(toks, rl, rl[e.token_type], off)

\* the test of OrParser.parse that replaces longest_parsed by parsed
OrParser_replaces(parsed, longest) ==
    parsed.token_count > longest.token_count

\* the for loop of OrParser.parse; longest is longest_parsed (NoResult: None)
OrParser_loop(toks, rl, chs, i, off, longest) ==
    IF i > Len(chs) THEN longest
    ELSE LET parsed == XParse(toks, rl, chs[i], off)
         IN  IF parsed.ok
             THEN OrParser_loop(toks, rl, chs, i + 1, off,
                      IF ~longest.ok THEN parsed
                      ELSE IF OrParser_replaces(parsed.tree, longest.tree)
                           THEN parsed ELSE longest)
             ELSE IF parsed.exc = "InternalParseError"
                  THEN OrParser_loop(toks, rl, chs, i + 1, off, longest)
                  ELSE parsed

\* OrParser.parse
OrParser_parse(toks, rl, e, off) ==
    LET longest == OrParser_loop(toks, rl, e.ch, 1, off, NoResult)
    IN  IF longest.ok
        THEN Ok(Tree(longest.tree.token_offset, longest.tree.token_count,
                     e.token_type, <<longest.tree>>))
        ELSE IF longest.exc = "none"
             THEN Raise("InternalParseError", off)
             ELSE longest

\* one pass of the while loop of RepeatParser.parse
RepeatParser_iteration(toks, rl, child, coff, children) ==
    LET parsed == XParse(toks, rl, child, coff)
    IN  IF parsed.ok
        THEN [next |-> "loop", child_offset |-> coff + parsed.tree.token_count,
              children |-> Append(children, parsed.tree), raised |-> NoResult]
        ELSE IF parsed.exc = "InternalParseError"
             THEN [next |-> "stop", child_offset |-> coff,
                   children |-> children, raised |-> NoResult]
             ELSE [next |-> "raise", child_offset |-> coff,
                   children |-> children, raised |-> parsed]

\* RepeatParser.parse after the loop: the min_repeats test and the return
RepeatParser_return(e, off, coff, children) ==
    IF Len(children) < e.min_repeats
    THEN Raise("InternalParseError", off)
    ELSE Ok(Tree(off, coff - off, e.token_type, children))

RepeatParser_loop(toks, rl, e, off, st) ==
    LET it == RepeatParser_iteration(toks, rl, e.ch[1], st.child_offset, st.children)
    IN  CASE it.next = "loop" -> RepeatParser_loop(toks, rl, e, off, it)
          [] it.next = "stop" -> RepeatParser_return(e, off, it.child_offset, it.children)
          [] OTHER -> it.raised

\* RepeatParser.parse
RepeatParser_parse(toks, rl, e, off) ==
    RepeatParser_loop(toks, rl, e, off,
                      [child_offset |-> off, children |-> <<>>])

\* OptionalParser.parse
OptionalParser_parse(toks, rl, e, off) ==
    LET parsed == XParse(toks, rl, e.ch[1], off)
    IN  IF parsed.ok
        THEN Ok(Tree(off, parsed.tree.token_count, e.token_type, <<parsed.tree>>))
        ELSE IF parsed.exc = "InternalParseError"
             THEN Ok(Tree(off, 0, e.token_type, <<>>))
             ELSE parsed

ConcatenationParser_loop(toks, rl, chs, i, coff, trees) ==
    IF i > Len(chs) THEN [ok |-> TRUE, child_offset |-> coff, trees |-> trees]
    ELSE LET parsed == XParse(toks, rl, chs[i], coff)
         IN  IF parsed.ok
             THEN ConcatenationParser_loop(toks, rl, chs, i + 1,
                      coff + parsed.tree.token_count, Append(trees, parsed.tree))
             ELSE parsed

\* ConcatenationParser.parse with the number of sub-trees as token count
ConcatenationParser_parse_counting_children(toks, rl, e, off) ==
    LET r == ConcatenationParser_loop(toks, rl, e.ch, 1, off, <<>>)
    IN  IF r.ok THEN Ok(Tree(off, Len(r.trees), e.token_type, r.trees))
        ELSE r

\* ConcatenationParser.parse
ConcatenationParser_parse(toks, rl, e, off) ==
    LET r == ConcatenationParser_loop(toks, rl, e.ch, 1, off, <<>>)
    IN  IF r.ok THEN Ok(Tree(off, r.child_offset - off, e.token_type, r.trees))
        ELSE r

\* Parser.parse, dispatched on the class of the object
XParse(toks, rl, e, off) ==
    CASE e.k = "Concatenation" -> ConcatenationParser_parse(toks, rl, e, off)
      [] e.k = "Alternation" -> OrParser_parse(toks, rl, e, off)
      [] e.k = "NonTerminal" -> NonTerminalParser_parse(toks, rl, e, off)
      [] e.k = "Optional" -> OptionalParser_parse(toks, rl, e, off)
      [] e.k = "Repetition" -> RepeatParser_parse(toks, rl, e, off)
      [] e.k = "Terminal" -> TerminalParser_parse(toks, e, off)

(***************************************************************************)
(* The tokenizer of src/parser/parser.py.                                  *)
(* A RegexTokenizer is modelled for the regexes "[c]", "[c]+" and "[c]*"   *)
(* over a character class c: re.match of "^regex" on code[offset:] is the  *)
(* greedy run of characters of c at offset.                                *)
(***************************************************************************)
WHITESPACE == "WHITESPACE"
NL == "\n"
Alphabet == {"3", "+", NL}

\* RegexTokenizer.tokenize returns None
NoMatch == -1

Regex(c, q) == [chars |-> c, quantifier |-> q]

RECURSIVE RunLength(_, _, _)
\* the number of consecutive characters of c in code from offset off
RunLength(cd, off, c) ==
    IF off < Len(cd) /\ cd[off + 1] \in c
    THEN 1 + RunLength(cd, off + 1, c)
    ELSE 0

\* len(match.group(0)) of self.regex.match(code[offset:]), NoMatch if None
RegexMatch(rx, cd, off) ==
    LET n == RunLength(cd, off, rx.chars)
    IN  CASE rx.quantifier = "one" -> IF n >= 1 THEN 1 ELSE NoMatch
          [] rx.quantifier = "plus" -> IF n >= 1 THEN n ELSE NoMatch
          [] rx.quantifier = "star" -> n

\* RegexTokenizer.tokenize without its test for a match of length 0
RegexTokenizer_tokenize_accepting_empty(rx, cd, off) ==
    RegexMatch(rx, cd, off)

\* RegexTokenizer.tokenize
RegexTokenizer_tokenize(rx, cd, off) ==
    LET match_length == RegexMatch(rx, cd, off)
    IN  IF match_length = NoMatch THEN NoMatch
        ELSE IF match_length = 0 THEN NoMatch
        ELSE match_length

\* tokenize: the body of the for loop at rule i, from (offset, tokens).
\* "break" leaves the for loop; "next" goes on to rule i + 1.
tokenize_rule(cd, trules, prn, i, off, toks) ==
    LET token_type == trules[i].type
        token_length == RegexTokenizer_tokenize(trules[i].regex, cd, off)
    IN  IF token_length # NoMatch
        THEN [go |-> "break",
              tokens |-> IF token_type \notin prn
                         THEN Append(toks, [type |-> token_type, offset |-> off,
                                            length |-> token_length])
                         ELSE toks,
              offset |-> off + token_length]
        ELSE [go |-> "next", tokens |-> toks, offset |-> off]

RECURSIVE tokenize_for(_, _, _, _, _, _)
\* tokenize: the for loop from rule i on; it ends with the state unchanged
\* when no rule matches
tokenize_for(cd, trules, prn, i, off, toks) ==
    IF i > Len(trules) THEN [go |-> "exhausted", tokens |-> toks, offset |-> off]
    ELSE LET r == tokenize_rule(cd, trules, prn, i, off, toks)
         IN  IF r.go = "break" THEN r
             ELSE tokenize_for(cd, trules, prn, i + 1, off, toks)

RECURSIVE tokenize_while(_, _, _, _, _)
\* tokenize: the while loop from (offset, tokens), for inputs on which some
\* rule matches at every offset
tokenize_while(cd, trules, prn, off, toks) ==
    IF off < Len(cd)
    THEN LET r == tokenize_for(cd, trules, prn, 1, off, toks)
         IN  tokenize_while(cd, trules, prn, r.offset, r.tokens)
    ELSE toks

\* tokenize(code, terminal_rules, pruned_terminals)
tokenize(cd, trules, prn) == tokenize_while(cd, trules, prn, 0, <<>>)

Codes == UNION {[1..n -> Alphabet] : n \in 0..MaxCode}

NumberRule == [type |-> NUMBER, regex |-> Regex({"3"}, "plus")]
PlusRule == [type |-> PLUS, regex |-> Regex({"+"}, "one")]
SpaceRule == [type |-> WHITESPACE, regex |-> Regex({NL}, "plus")]

\* every character of Alphabet is matched by some rule of these lists
CoveringRules == <<NumberRule, PlusRule, SpaceRule>>

RuleLists ==
    { CoveringRules,
      <<NumberRule, PlusRule>>,
      <<[type |-> WHITESPACE, regex |-> Regex({NL}, "star")],
        [type |-> NUMBER, regex |-> Regex({"3"}, "one")],
        [type |-> PLUS, regex |-> Regex({"3", "+"}, "plus")]>>,
      <<NumberRule>> }

(***************************************************************************)
(* SpecTokenize: tokenize, one rule of the for loop per step.              *)
(* pc = "while": at the test of the while loop; "for": about to try rule   *)
(* tk_rule; "returned": tokenize returned tk_tokens.                       *)
(***************************************************************************)
InitTokenize ==
    /\ mode = "tokenize"
    /\ pc = "while"
    /\ tokens = <<>>
    /\ code \in Codes
    /\ expr = None
    /\ rules = <<>>
    /\ offset = 0
    /\ result = NoResult
    /\ child_offset = 0
    /\ sub_trees = <<>>
    /\ tk_offset = 0
    /\ tk_tokens = <<>>
    /\ tk_rule = 0
    /\ keys = <<>>
    /\ terminal_rules \in RuleLists
    /\ pruned \in {{}, {WHITESPACE}}
    /\ tree = NoTree

\* while offset < len(code): ... ; return tokens
TokenizeWhile ==
    /\ mode = "tokenize" /\ pc = "while"
    /\ IF tk_offset < Len(code)
       THEN /\ pc' = "for"
            /\ tk_rule' = 1
            /\ UNCHANGED <<tk_offset, tk_tokens>>
       ELSE /\ pc' = "returned"
            /\ UNCHANGED tkVars
    /\ UNCHANGED <<inputs, result, rpVars, tree>>

\* for token_type, tokenizer in terminal_rules: one rule tried
TokenizeFor ==
    /\ mode = "tokenize" /\ pc = "for"
    /\ tk_rule <= Len(terminal_rules)
    /\ LET r == tokenize_rule(code, terminal_rules, pruned, tk_rule,
                              tk_offset, tk_tokens)
       IN  /\ tk_tokens' = r.tokens
           /\ tk_offset' = r.offset
           /\ IF r.go = "break"
              THEN pc' = "while" /\ UNCHANGED tk_rule
              ELSE pc' = "for" /\ tk_rule' = tk_rule + 1
    /\ UNCHANGED <<inputs, result, rpVars, tree>>

\* the for loop ran out of rules without a break: back to the while test
TokenizeForEnd ==
    /\ mode = "tokenize" /\ pc = "for"
    /\ tk_rule > Len(terminal_rules)
    /\ pc' = "while"
    /\ UNCHANGED <<inputs, result, rpVars, tkVars, tree>>

NextTokenize == TokenizeWhile \/ TokenizeFor \/ TokenizeForEnd

SpecTokenize == InitTokenize /\ [][NextTokenize]_vars

\* no rule of terminal_rules matches a non-empty prefix at offset off
NoRuleMatches(off) ==
    \A i \in 1..Len(terminal_rules) :
        RegexMatch(terminal_rules[i].regex, code, off) <= 0

TokenizeFailedAt(off) ==
    /\ pc = "failed"
    /\ ~result.ok
    /\ result.offset = off

\* C3: when no rule matches a non-empty prefix at an offset below the end of
\* the input, tokenize ends in a failure that carries that offset: once the
\* for loop has tried every rule there without a match, tokenize has failed
\* there and is not back at the test of its while loop.
C3_TokenizeFailsWhereNoRuleMatches ==
    (mode = "tokenize" /\ tk_offset < Len(code) /\ NoRuleMatches(tk_offset)
        /\ tk_rule > Len(terminal_rules) /\ pc # "for")
    => TokenizeFailedAt(tk_offset)

(***************************************************************************)
(* Validation of the rule table.                                           *)
(* An enumeration is the sequence of its members, [name, value], in        *)
(* definition order.  A key of the rule table is [enum, name, value]: the  *)
(* member `name` of enumeration `enum`.  The keys are IntEnum members, so  *)
(* Python's dict and set operations compare them by their integer value.   *)
(***************************************************************************)
Member(n, v) == [name |-> n, value |-> v]

Enumerations ==
    [E3 |-> <<Member(ROOT, 1), Member(NUMBER, 2), Member(PLUS, 3)>>,
     E5 |-> <<Member(ROOT, 1), Member(ITEM, 2), Member(SIGN, 3),
              Member(NUMBER, 4), Member(PLUS, 5)>>,
     H2 |-> <<Member("START", 1), Member(NUMBER, 2)>>,
     X2 |-> <<Member("EXTRA", 8), Member("OTHER", 9)>>]

Key(en, m) == [enum |-> en, name |-> m.name, value |-> m.value]
KeysOf(en) == [i \in 1..Len(Enumerations[en]) |-> Key(en, Enumerations[en][i])]
Range(sq) == {sq[i] : i \in 1..Len(sq)}
Values(S) == {x.value : x \in S}
Names(S) == {x.name : x \in S}

NoError == [exc |-> "none", types |-> {}]
ValidationError(e, t) == [exc |-> e, types |-> t]

\* Parser._check_non_terminal_rules
Parser_check_non_terminal_rules(ks) ==
    IF Len(ks) = 0 THEN ValidationError("IndexError", {})
    ELSE LET tokens_enum == Range(Enumerations[ks[1].enum])
             unexpected_keys == {k \in Range(ks) : k.value \notin Values(tokens_enum)}
             missing_keys == {m \in tokens_enum : m.value \notin Values(Range(ks))}
         IN  IF ROOT \notin Names(tokens_enum)
             THEN ValidationError("MissingRootNonTerminalType", {})
             ELSE IF missing_keys # {}
             THEN ValidationError("MissingNonTerminalTypes", Names(missing_keys))
             ELSE IF unexpected_keys # {}
             THEN ValidationError("UnexpectedNonTerminalTypes", Names(unexpected_keys))
             ELSE NoError

\* _check_non_terminal_rules of src/parser/parser.py
check_non_terminal_rules(ks) ==
    IF Len(ks) = 0 THEN ValidationError("IndexError", {})
    ELSE LET symbols_enum == Enumerations[ks[1].enum]
             unhandled == {i \in 1..Len(symbols_enum) :
                              symbols_enum[i].value \notin Values(Range(ks))}
             first == CHOOSE i \in unhandled : \A j \in unhandled : i <= j
             unexpected_keys == {k \in Range(ks) :
                                    k.value \notin Values(Range(symbols_enum))}
         IN  IF unhandled # {}
             THEN ValidationError("UnhandledSymbolType", {symbols_enum[first].name})
             ELSE IF Values(Range(ks)) # Values(Range(symbols_enum))
             THEN ValidationError("UnexpectedSymbolType", Names(unexpected_keys))
             ELSE IF ROOT \notin Names(Range(symbols_enum))
             THEN ValidationError("ValueError", {})
             ELSE NoError

(***************************************************************************)
(* Pruning (src/parser/parser/parser.py).                                  *)
(***************************************************************************)
RECURSIVE get_descendants_with_token_type(_)
RECURSIVE descendants_with_token_type_from(_, _)

\* the for loop, with the children of an untagged child dropped
descendants_with_token_type_dropping(t, i) ==
    IF i > Len(t.children) THEN <<>>
    ELSE LET child == t.children[i]
         IN  (IF child.token_type = None
              THEN <<>>
              ELSE <<[child EXCEPT
                        !.children = get_descendants_with_token_type(child)]>>)
             \o descendants_with_token_type_from(t, i + 1)

\* the for loop of _get_descendants_with_token_type, from child i on
descendants_with_token_type_from(t, i) ==
    IF i > Len(t.children) THEN <<>>
    ELSE LET child == t.children[i]
         IN  (IF child.token_type = None
              THEN get_descendants_with_token_type(child)
              ELSE <<[child EXCEPT
                        !.children = get_descendants_with_token_type(child)]>>)
             \o descendants_with_token_type_from(t, i + 1)

\* _get_descendants_with_token_type
get_descendants_with_token_type(t) == descendants_with_token_type_from(t, 1)

\* _prune_no_token_type (its assert: the root carries a token type)
prune_no_token_type(t) ==
    Tree(t.token_offset, t.token_count, t.token_type,
         get_descendants_with_token_type(t))

RECURSIVE get_descendants_without_token_types(_, _)
RECURSIVE descendants_without_token_types_from(_, _, _)

\* the for loop, with a pruned child removed together with its subtree
descendants_without_token_types_dropping(t, types, i) ==
    IF i > Len(t.children) THEN <<>>
    ELSE LET child == t.children[i]
         IN  (IF child.token_type \in types
              THEN <<>>
              ELSE <<[child EXCEPT
                        !.children = get_descendants_without_token_types(child, types)]>>)
             \o descendants_without_token_types_from(t, types, i + 1)

\* the for loop of _get_descendants_without_token_types, from child i on

descendants_without_token_types_from(t, types, i) ==
    IF i > Len(t.children) THEN <<>>
    ELSE LET child == t.children[i]
         IN  (IF child.token_type \in types
              THEN get_descendants_without_token_types(child, types)
              ELSE <<[child EXCEPT
                        !.children = get_descendants_without_token_types(child, types)]>>)
             \o descendants_without_token_types_from(t, types, i + 1)

\* _get_descendants_without_token_types
get_descendants_without_token_types(t, types) ==
    descendants_without_token_types_from(t, types, 1)

\* _prune_by_token_types splicing one level only: the children that take
\* the place of a pruned child are not pruned themselves
prune_by_token_types_one_level(t, types) ==
    LET Spliced(child) == IF child.token_type \in types
                          THEN child.children ELSE <<child>>
        Flat[i \in 0..Len(t.children)] ==
            IF i = 0 THEN <<>> ELSE Flat[i - 1] \o Spliced(t.children[i])
    IN  Tree(t.token_offset, t.token_count, t.token_type, Flat[Len(t.children)])

\* _prune_by_token_types
prune_by_token_types(t, types) ==
    LET descendants == get_descendants_without_token_types(t, types)
        children == [i \in 1..Len(descendants) |->
                        Tree(descendants[i].token_offset,
                             descendants[i].token_count,
                             descendants[i].token_type,
                             get_descendants_without_token_types(descendants[i], types))]
    IN  Tree(t.token_offset, t.token_count, t.token_type, children)

(***************************************************************************)
(* Pruning of parser.tree, which src/ does not hold: prune_no_symbol,      *)
(* prune_zero_length and prune_by_symbol_types are modelled from section   *)
(* 4.4 of the specification.                                               *)
(***************************************************************************)
\* stage 1, untagged-node elision
prune_no_symbol(t) == prune_no_token_type(t)

RECURSIVE zero_length_pruned_children(_, _)
zero_length_pruned_children(t, i) ==
    IF i > Len(t.children) THEN <<>>
    ELSE LET child == t.children[i]
         IN  (IF child.token_count = 0 THEN <<>>
              ELSE <<[child EXCEPT
                        !.children = zero_length_pruned_children(child, 1)]>>)
             \o zero_length_pruned_children(t, i + 1)

\* stage 2, zero-length elision; None when the whole tree collapses
prune_zero_length(t) ==
    IF t.token_count = 0 THEN NoTree
    ELSE [t EXCEPT !.children = zero_length_pruned_children(t, 1)]

RECURSIVE symbol_pruned_children(_, _, _, _)
symbol_pruned_children(t, types, prune_hard, i) ==
    IF i > Len(t.children) THEN <<>>
    ELSE LET child == t.children[i]
         IN  (IF child.token_type \in types
              THEN IF prune_hard
                   THEN symbol_pruned_children(child, types, prune_hard, 1)
                   ELSE <<>>
              ELSE <<[child EXCEPT
                        !.children = symbol_pruned_children(child, types, prune_hard, 1)]>>)
             \o symbol_pruned_children(t, types, prune_hard, i + 1)

\* stage 3, targeted pruning: hard splices the children of a removed node
\* into its parent, soft removes the node with its subtree
prune_by_symbol_types(t, types, prune_hard) ==
    [t EXCEPT !.children = symbol_pruned_children(t, types, prune_hard, 1)]

(***************************************************************************)
(* Error locations.                                                        *)
(***************************************************************************)
\* code[:offset].count("\n")
CountNewlines(cd, off) ==
    Cardinality({i \in 1..Len(cd) : i <= off /\ cd[i] = NL})

\* code[:offset].rfind("\n"), a 0-based index, -1 when there is none
RFindNewline(cd, off) ==
    LET S == {i \in 1..Len(cd) : i <= off /\ cd[i] = NL}
    IN  IF S = {} THEN -1
        ELSE (CHOOSE i \in S : \A j \in S : j <= i) - 1

\* get_line_column_numbers with the column counted from 0
get_line_column_numbers_from_zero(cd, off) ==
    <<1 + CountNewlines(cd, off), off - RFindNewline(cd, off) - 1>>

\* BaseParseError.get_line_column_numbers
get_line_column_numbers(cd, off) ==
    LET line_num == 1 + CountNewlines(cd, off)
        prev_newline_offset == RFindNewline(cd, off)
        col_num == off - prev_newline_offset
    IN  <<line_num, col_num>>

\* humanize_parse_error: tokens[e.token_offset] raises IndexError past the end
humanize_parse_error(cd, toks, e) ==
    IF e.offset >= Len(toks) THEN Raise("IndexError", e.offset)
    ELSE LET off == toks[e.offset + 1].offset
             line_number == 1 + CountNewlines(cd, off)
             prev_newline == RFindNewline(cd, off)
             column_number == off - prev_newline
         IN  [ok |-> FALSE, exc |-> "ParseError", offset |-> off,
              line_number |-> line_number, column_number |-> column_number]

(***************************************************************************)
(* The top-level parse.                                                    *)
(***************************************************************************)
\* Parser.parse: first_unexpected_token = self.tokens[tree.token_count]
Parser_first_unexpected_token(toks, token_count) == toks[token_count + 1]

\* Parser.parse: the tree of the root expression, tagged with the root symbol
Parser_root_tree(toks, rl) ==
    LET r == Parser_parse_expr(toks, rl, rl[ROOT], 0)
    IN  IF r.ok THEN Ok([r.tree EXCEPT !.token_type = ROOT]) ELSE r

\* Parser.parse
Parser_parse(ks, toks, rl, prn) ==
    LET checked == Parser_check_non_terminal_rules(ks)
        root == Parser_root_tree(toks, rl)
    IN  IF checked.exc # "none" THEN [ok |-> FALSE, exc |-> checked.exc,
                                      offset |-> 0, types |-> checked.types]
        ELSE IF ~root.ok THEN root
        ELSE IF root.tree.token_count # Len(toks)
             THEN Raise("ParseError",
                        Parser_first_unexpected_token(toks, root.tree.token_count).offset)
             ELSE Ok(prune_by_token_types(prune_no_token_type(root.tree), prn))

\* parse_generic: "tree.token_type = root_symbol" writes the root symbol into
\* the root expression of the rule table, unless it is a NonTerminalParser
parse_generic_rules(rl) ==
    IF rl[ROOT].k # "NonTerminal"
    THEN [rl EXCEPT ![ROOT].token_type = ROOT]
    ELSE rl

\* parse_generic: the try block; rl is the rule table after that write
parse_generic_try(toks, cd, rl) ==
    LET parsed == XParse(toks, rl, rl[ROOT], 0)
    IN  IF parsed.ok
        THEN IF parsed.tree.token_count # Len(cd)
             THEN humanize_parse_error(cd, toks,
                      Raise("InternalParseError", parsed.tree.token_count))
             ELSE Ok([parsed.tree EXCEPT !.token_type = ROOT])
        ELSE IF parsed.exc = "InternalParseError"
             THEN humanize_parse_error(cd, toks, parsed)
             ELSE parsed

\* parse_generic: the pruning stages, each followed by "assert parsed"
parse_generic_prune(t, hard, soft) ==
    LET no_symbol == prune_no_symbol(t)
        zero_length == prune_zero_length(no_symbol)
        hard_pruned == IF hard # NoSet
                       THEN prune_by_symbol_types(zero_length, hard, TRUE)
                       ELSE zero_length
        soft_pruned == IF soft # NoSet
                       THEN prune_by_symbol_types(hard_pruned, soft, FALSE)
                       ELSE hard_pruned
    IN  IF zero_length = NoTree THEN Raise("AssertionError", 0)
        ELSE Ok(soft_pruned)

\* parse_generic
parse_generic(ks, toks, cd, rl, hard, soft) ==
    LET checked == check_non_terminal_rules(ks)
        tried == parse_generic_try(toks, cd, parse_generic_rules(rl))
    IN  IF checked.exc # "none" THEN [ok |-> FALSE, exc |-> checked.exc,
                                      offset |-> 0, types |-> checked.types]
        ELSE IF ~tried.ok THEN tried
        ELSE parse_generic_prune(tried.tree, hard, soft)

(***************************************************************************)
(* Inputs.                                                                 *)
(***************************************************************************)
RECURSIVE SumLen(_, _)
SumLen(ls, n) == IF n = 0 THEN 0 ELSE ls[n] + SumLen(ls, n - 1)

\* Token(type, offset, length) records with contiguous source offsets
MakeTokens(ts, ls) ==
    [i \in 1..Len(ts) |->
        [type |-> ts[i], offset |-> SumLen(ls, i - 1), length |-> ls[i]]]

TypeSeqs == UNION {[1..n -> Terminals] : n \in 0..MaxTokens}

\* token lists whose tokens are one character long
UnitTokens == {MakeTokens(ts, [i \in 1..Len(ts) |-> 1]) : ts \in TypeSeqs}

Leaves == {Terminal(s) : s \in Terminals}

\* expressions that consume at least one token whenever they succeed
Consuming ==
    Leaves
    \cup {Concatenation(<<a, b>>) : a \in Leaves, b \in Leaves}
    \cup {Alternation(<<a, Concatenation(<<a, b>>)>>) : a \in Leaves, b \in Leaves}
    \cup {NonTerminal(ITEM)}

\* expressions whose repeat loops always end
Level1 ==
    Consuming
    \cup {Optional(a) : a \in Leaves}
    \cup {Repetition(a, m) : a \in Leaves, m \in 0..1}

Level2 ==
    Level1
    \cup {Optional(a) : a \in Level1}
    \cup {Repetition(a, m) : a \in Consuming, m \in 0..2}
    \cup {Alternation(<<a, b>>) : a \in Level1, b \in Level1}
    \cup {Concatenation(<<a, b>>) : a \in Level1, b \in Leaves}
    \cup {Concatenation(<<a, b>>) : a \in Leaves, b \in Level1}

\* the rule table of the grammars parsed here, with root expression e
Grammar(e) ==
    [s \in {ROOT, ITEM, SIGN, NUMBER, PLUS} |->
        CASE s = ROOT -> e
          [] s = ITEM -> Concatenation(<<Terminal(NUMBER), Optional(Terminal(PLUS))>>)
          [] s = SIGN -> Optional(Terminal(PLUS))
          [] s = NUMBER -> Terminal(NUMBER)
          [] s = PLUS -> Terminal(PLUS)]

(***************************************************************************)
(* SpecParse: one expression parsed at one offset, by either engine.       *)
(***************************************************************************)
InitParse ==
    /\ mode = "parse"
    /\ pc = "start"
    /\ tokens \in UnitTokens
    /\ code = <<>>
    /\ expr \in Level2
    /\ rules = Grammar(expr)
    /\ offset \in 0..Len(tokens)
    /\ result = NoResult
    /\ child_offset = 0
    /\ sub_trees = <<>>
    /\ tk_offset = 0
    /\ tk_tokens = <<>>
    /\ tk_rule = 0
    /\ keys = <<>>
    /\ terminal_rules = <<>>
    /\ pruned = {}
    /\ tree = NoTree

\* Parser._parse(expr, offset)
ParseOld ==
    /\ mode = "parse" /\ pc = "start"
    /\ result' = Parser_parse_expr(tokens, rules, expr, offset)
    /\ pc' = "old"
    /\ UNCHANGED <<inputs, rpVars, tkVars, tree>>

\* expr.parse(tokens, offset, non_terminal_rules)
ParseNew ==
    /\ mode = "parse" /\ pc = "start"
    /\ result' = XParse(tokens, rules, expr, offset)
    /\ pc' = "new"
    /\ UNCHANGED <<inputs, rpVars, tkVars, tree>>

NextParse == ParseOld \/ ParseNew

SpecParse == InitParse /\ [][NextParse]_vars

(***************************************************************************)
(* SpecValidate: the rule table validators on one table.                   *)
(***************************************************************************)
AllKeys == UNION {Range(KeysOf(en)) : en \in {"E3", "H2", "X2"}}

\* the key lists a dict can hold: no two keys equal (by value)
KeyLists ==
    UNION {{ks \in [1..n -> AllKeys] :
               \A i, j \in 1..n : i # j => ks[i].value # ks[j].value}
           : n \in 0..MaxKeys}

InitValidate ==
    /\ mode = "validate"
    /\ pc = "start"
    /\ tokens = <<>>
    /\ code = <<>>
    /\ expr = None
    /\ rules = <<>>
    /\ offset = 0
    /\ result = NoError
    /\ child_offset = 0
    /\ sub_trees = <<>>
    /\ tk_offset = 0
    /\ tk_tokens = <<>>
    /\ tk_rule = 0
    /\ keys \in KeyLists
    /\ terminal_rules = <<>>
    /\ pruned = {}
    /\ tree = NoTree

\* Parser._check_non_terminal_rules()
ValidateOld ==
    /\ mode = "validate" /\ pc = "start"
    /\ result' = Parser_check_non_terminal_rules(keys)
    /\ pc' = "old"
    /\ UNCHANGED <<inputs, rpVars, tkVars, tree>>

\* _check_non_terminal_rules(non_terminal_rules)
ValidateNew ==
    /\ mode = "validate" /\ pc = "start"
    /\ result' = check_non_terminal_rules(keys)
    /\ pc' = "new"
    /\ UNCHANGED <<inputs, rpVars, tkVars, tree>>

NextValidate == ValidateOld \/ ValidateNew

SpecValidate == InitValidate /\ [][NextValidate]_vars

\* the enumeration of the table: the type of its first key
TableEnum == Range(Enumerations[keys[1].enum])
\* members without an entry, and keys that are no member (as Python compares
\* IntEnum members: by value)
MissingMembers == {m \in TableEnum : m.value \notin Values(Range(keys))}
UnexpectedKeys == {k \in Range(keys) : k.value \notin Values(TableEnum)}
NoRootMember == ROOT \notin Names(TableEnum)

MissingKinds == {"MissingNonTerminalTypes", "UnhandledSymbolType"}
UnexpectedKinds == {"UnexpectedNonTerminalTypes", "UnexpectedSymbolType"}
RootKinds == {"MissingRootNonTerminalType", "ValueError"}

\* C5: validation rejects a table that misses members (missing-types error
\* naming the missing members), that has keys outside the enumeration
\* (unexpected-types error naming them), or whose enumeration has no root
\* member (missing-root error), and passes a table with exactly one entry
\* per member and a root.  Where a table has several of these defects only
\* a rejection is asked for, since one error is raised.
C5_ValidationRejectsWithKind ==
    (mode = "validate" /\ pc \in {"old", "new"} /\ Len(keys) > 0) =>
        /\ (MissingMembers # {} \/ UnexpectedKeys # {} \/ NoRootMember)
              => result.exc # "none"
        /\ (MissingMembers # {} /\ UnexpectedKeys = {} /\ ~NoRootMember)
              => /\ result.exc \in MissingKinds
                 /\ result.types = Names(MissingMembers)
        /\ (UnexpectedKeys # {} /\ MissingMembers = {} /\ ~NoRootMember)
              => /\ result.exc \in UnexpectedKinds
                 /\ result.types = Names(UnexpectedKeys)
        /\ (NoRootMember /\ MissingMembers = {} /\ UnexpectedKeys = {})
              => result.exc \in RootKinds
        /\ (MissingMembers = {} /\ UnexpectedKeys = {} /\ ~NoRootMember)
              => result.exc = "none"

(***************************************************************************)
(* SpecTop: a whole parse of a tokenized source text.                      *)
(***************************************************************************)
\* ROOT = NUMBER (PLUS NUMBER)*
SumRoot ==
    Concatenation(<<Terminal(NUMBER),
                    Repetition(Concatenation(<<Terminal(PLUS), Terminal(NUMBER)>>), 0)>>)

\* the source text "3+4+5"
SumCode == <<"3", "+", "3", "+", "3">>

TopGrammars ==
    {[enum |-> "E3", root |-> e] : e \in
        { SumRoot,
          Terminal(NUMBER),
          Concatenation(<<Terminal(NUMBER)>>),
          Concatenation(<<Terminal(NUMBER), Optional(Terminal(PLUS))>>),
          Concatenation(<<Optional(Terminal(PLUS)), Terminal(NUMBER)>>),
          Repetition(Terminal(NUMBER), 0),
          Repetition(Terminal(NUMBER), 1),
          Optional(Terminal(NUMBER)),
          Alternation(<<Terminal(NUMBER),
                        Concatenation(<<Terminal(NUMBER), Terminal(PLUS)>>)>>) }}
    \cup
    {[enum |-> "E5", root |-> e] : e \in
        { Concatenation(<<NonTerminal(SIGN), Terminal(NUMBER)>>),
          NonTerminal(ITEM),
          Repetition(NonTerminal(ITEM), 0),
          Concatenation(<<NonTerminal(SIGN), Repetition(NonTerminal(ITEM), 1)>>),
          Alternation(<<NonTerminal(ITEM), Terminal(NUMBER)>>) }}

InitTop ==
    /\ mode = "top"
    /\ pc = "start"
    /\ code \in Codes \cup {SumCode}
    /\ tokens = tokenize(code, CoveringRules, {WHITESPACE})
    /\ \E g \in TopGrammars :
          /\ expr = g.root
          /\ keys = KeysOf(g.enum)
          /\ rules = [n \in Names(Range(KeysOf(g.enum))) |-> Grammar(g.root)[n]]
    /\ offset = 0
    /\ result = NoResult
    /\ child_offset = 0
    /\ sub_trees = <<>>
    /\ tk_offset = 0
    /\ tk_tokens = <<>>
    /\ tk_rule = 0
    /\ terminal_rules = CoveringRules
    /\ pruned \in {{}, {ITEM}}
    /\ tree = NoTree

\* Parser(...).parse(); tree is its local of that name, once parsed and tagged
TopParseOld ==
    /\ mode = "top" /\ pc = "start"
    /\ result' = Parser_parse(keys, tokens, rules, pruned)
    /\ tree' = IF Parser_check_non_terminal_rules(keys).exc = "none"
                  /\ Parser_root_tree(tokens, rules).ok
               THEN Parser_root_tree(tokens, rules).tree
               ELSE NoTree
    /\ pc' = "old"
    /\ UNCHANGED <<inputs, rpVars, tkVars>>

\* parse_generic(non_terminal_rules, tokens, code, prune_hard_symbols);
\* tree is its local `parsed` before the pruning stages
TopParseNew ==
    /\ mode = "top" /\ pc = "start"
    /\ result' = parse_generic(keys, tokens, code, rules,
                               IF pruned = {} THEN NoSet ELSE pruned, NoSet)
    /\ rules' = IF check_non_terminal_rules(keys).exc = "none"
                THEN parse_generic_rules(rules) ELSE rules
    /\ tree' = IF check_non_terminal_rules(keys).exc = "none"
                  /\ parse_generic_try(tokens, code, parse_generic_rules(rules)).ok
               THEN parse_generic_try(tokens, code, parse_generic_rules(rules)).tree
               ELSE NoTree
    /\ pc' = "new"
    /\ UNCHANGED <<mode, tokens, code, expr, offset, keys, terminal_rules,
                   pruned, rpVars, tkVars>>

NextTop == TopParseOld \/ TopParseNew

SpecTop == InitTop /\ [][NextTop]_vars

(***************************************************************************)
(* Properties of SpecParse.                                                *)
(***************************************************************************)
Parsed == mode = "parse" /\ pc \in {"old", "new"}

\* the engine that produced result, applied to another expression and offset
EngineParse(e, off) ==
    IF pc = "old" THEN Parser_parse_expr(tokens, rules, e, off)
    ELSE XParse(tokens, rules, e, off)

\* a failure of the engine: the exception its except clauses handle
IsFailureAt(r, off) ==
    /\ ~r.ok
    /\ r.exc \in {"ParseError", "InternalParseError"}
    /\ r.offset = off

ChildResult(i) == EngineParse(expr.ch[i], offset)
Succeeding == {i \in 1..Len(expr.ch) : ChildResult(i).ok}
Longest(S) ==
    CHOOSE i \in S :
        /\ \A j \in S : ChildResult(j).tree.token_count <= ChildResult(i).tree.token_count
        /\ \A j \in S : ChildResult(j).tree.token_count = ChildResult(i).tree.token_count
                        => i <= j

\* C1: an Alternation returns its successful child with the greatest consumed
\* token count, the earliest declared one among equals, and fails at the
\* original offset only when no child succeeds (stated of Parser._parse).
C1_AlternationLongestMatch ==
    (mode = "parse" /\ pc = "old" /\ expr.k = "Alternation") =>
        IF Succeeding = {}
        THEN IsFailureAt(result, offset)
        ELSE /\ result.ok
             /\ result.tree.children = <<ChildResult(Longest(Succeeding)).tree>>
             /\ result.tree.token_count =
                    ChildResult(Longest(Succeeding)).tree.token_count

(***************************************************************************)
(* SpecRepeat: the while loop of a Repetition, one pass per step.          *)
(* Parser._parse_repeat and RepeatParser.parse keep child_offset and the   *)
(* list of collected children across the passes of "while True".           *)
(***************************************************************************)

\* children handed to the loop: consuming ones and ones that can match nothing
RepeatChildren ==
    Consuming
    \cup {Optional(a) : a \in Leaves}
    \cup {Repetition(a, 0) : a \in Leaves}

InitRepeat ==
    /\ mode = "repeat"
    /\ pc = "start"
    /\ tokens \in UnitTokens
    /\ code = <<>>
    /\ expr \in {Repetition(c, m) : c \in RepeatChildren, m \in 0..1}
    /\ rules = Grammar(expr)
    /\ offset \in 0..Len(tokens)
    /\ result = NoResult
    /\ child_offset = 0
    /\ sub_trees = <<>>
    /\ tk_offset = 0
    /\ tk_tokens = <<>>
    /\ tk_rule = 0
    /\ keys = <<>>
    /\ terminal_rules = <<>>
    /\ pruned = {}
    /\ tree = NoTree

\* Parser._parse(expr, offset) up to the first pass of _parse_repeat's loop:
\* past the last token _parse returns an empty Tree without calling it
RepeatEnterOld ==
    /\ mode = "repeat" /\ pc = "start"
    /\ IF offset >= Len(tokens)
       THEN /\ pc' = "done_old"
            /\ result' = Ok(Tree(offset, 0, None, <<>>))
            /\ UNCHANGED rpVars
       ELSE /\ pc' = "loop_old"
            /\ child_offset' = offset
            /\ sub_trees' = <<>>
            /\ UNCHANGED result
    /\ UNCHANGED <<inputs, tkVars, tree>>

\* RepeatParser.parse up to the first pass of its loop
RepeatEnterNew ==
    /\ mode = "repeat" /\ pc = "start"
    /\ pc' = "loop_new"
    /\ child_offset' = offset
    /\ sub_trees' = <<>>
    /\ UNCHANGED <<inputs, result, tkVars, tree>>

\* the effect of one pass `it` of either loop
RepeatPass(it, done, returned) ==
    /\ child_offset' = it.child_offset
    /\ sub_trees' = it.children
    /\ CASE it.next = "loop" -> UNCHANGED <<pc, result>>
         [] it.next = "stop" -> pc' = done /\ result' = returned
         [] OTHER -> pc' = done /\ result' = it.raised
    /\ UNCHANGED <<inputs, tkVars, tree>>

\* one pass of the while loop of Parser._parse_repeat
RepeatIterateOld ==
    /\ mode = "repeat" /\ pc = "loop_old"
    /\ Len(sub_trees) < MaxTokens + MaxIter
    /\ LET it == Parser_repeat_iteration(tokens, rules, expr.ch[1],
                                         child_offset, sub_trees)
       IN  RepeatPass(it, "done_old",
               Parser_repeat_return(expr, offset, it.child_offset, it.children))

\* one pass of the while loop of RepeatParser.parse
RepeatIterateNew ==
    /\ mode = "repeat" /\ pc = "loop_new"
    /\ Len(sub_trees) < MaxTokens + MaxIter
    /\ LET it == RepeatParser_iteration(tokens, rules, expr.ch[1],
                                        child_offset, sub_trees)
       IN  RepeatPass(it, "done_new",
               RepeatParser_return(expr, offset, it.child_offset, it.children))

NextRepeat ==
    \/ RepeatEnterOld
    \/ RepeatEnterNew
    \/ RepeatIterateOld
    \/ RepeatIterateNew

SpecRepeat == InitRepeat /\ [][NextRepeat]_vars

InRepeatLoop == mode = "repeat" /\ pc \in {"loop_old", "loop_new"}

\* C2: a Repetition whose child matches zero tokens stops after that one
\* empty attempt: while the loop is still running, no collected iteration
\* is empty (so every pass advances and the loop ends within the tokens).
C2_RepetitionStopsOnEmptyIteration ==
    InRepeatLoop =>
        \A i \in 1..Len(sub_trees) : sub_trees[i].token_count > 0

RECURSIVE CollectedFrom(_, _)
\* the trees of the successive successful parses of the child of expr from
\* offset on, each starting where the one before it ended
CollectedFrom(off, acc) ==
    LET r == EngineParse(expr.ch[1], off)
    IN  IF r.ok THEN CollectedFrom(off + r.tree.token_count, Append(acc, r.tree))
        ELSE acc

RECURSIVE SumCounts(_, _)
SumCounts(ts, n) == IF n = 0 THEN 0 ELSE ts[n].token_count + SumCounts(ts, n - 1)

\* C6: a Repetition with fewer successful child iterations than min_repeats
\* fails at its original offset; otherwise it succeeds with the collected
\* children, in order, and the sum of their token counts -- at every offset,
\* the end of the tokens included (stated of RepeatParser.parse).
C6_RepetitionMinRepeats ==
    (mode = "parse" /\ pc = "new" /\ expr.k = "Repetition") =>
        LET collected == CollectedFrom(offset, <<>>)
        IN  IF Len(collected) < expr.min_repeats
            THEN IsFailureAt(result, offset)
            ELSE /\ result.ok
                 /\ result.tree.children = collected
                 /\ result.tree.token_count = SumCounts(collected, Len(collected))

\* C8: Optional(child) never fails: the child's tree and token count when
\* the child succeeds, no children and token count 0 when it fails in any
\* way, at every offset up to the number of tokens (stated of
\* OptionalParser.parse).
C8_OptionalNeverFails ==
    (mode = "parse" /\ pc = "new" /\ expr.k = "Optional") =>
        LET child == EngineParse(expr.ch[1], offset)
        IN  /\ result.ok
            /\ IF child.ok
               THEN /\ result.tree.children = <<child.tree>>
                    /\ result.tree.token_count = child.tree.token_count
               ELSE /\ result.tree.children = <<>>
                    /\ result.tree.token_count = 0

(***************************************************************************)
(* Properties of SpecTop.                                                  *)
(***************************************************************************)
TopParsed == mode = "top" /\ pc \in {"old", "new"}

\* the parse of the root expression at offset 0 by the engine that ran
RootParse == EngineParse(rules[ROOT], 0)

\* C4: a root parse that consumes fewer tokens than there are fails with a
\* parse error at the offset of the first unconsumed token; one that
\* consumes all the tokens raises no completion error.
C4_RootCompletion ==
    (TopParsed /\ RootParse.ok) =>
        IF RootParse.tree.token_count < Len(tokens)
        THEN /\ ~result.ok
             /\ result.exc = "ParseError"
             /\ result.offset = tokens[RootParse.tree.token_count + 1].offset
        ELSE result.ok

RECURSIVE Descendants(_)
\* the nodes below the root of a tree
Descendants(t) ==
    UNION {{t.children[i]} \cup Descendants(t.children[i]) : i \in 1..Len(t.children)}

\* C9: in the tree a successful top-level parse returns, no node below the
\* root has a token count of zero.
C9_NoZeroLengthNode ==
    (TopParsed /\ result.ok) =>
        \A n \in Descendants(result.tree) : n.token_count > 0

SumScenario ==
    /\ mode = "top" /\ pc = "old"
    /\ keys = KeysOf("E3")
    /\ expr = SumRoot

\* C7 as amended: for "3+" under ROOT = NUMBER (PLUS NUMBER)* the parse fails
\* at offset 1, the first unconsumed token (PLUS): line 1, column 2.
C7_TrailingPlusFailsAtPlus ==
    (SumScenario /\ code = <<"3", "+">>) =>
        /\ ~result.ok
        /\ result.exc = "ParseError"
        /\ result.offset = 1
        /\ get_line_column_numbers(code, result.offset) = <<1, 2>>

C7_Witness ==
    /\ SumScenario /\ code = <<"3", "+">>
    /\ tokens = <<[type |-> NUMBER, offset |-> 0, length |-> 1],
                  [type |-> PLUS, offset |-> 1, length |-> 1]>>
    /\ ~result.ok

\* C7 as stated: for "3+" the parse fails at offset 2, the position of the
\* missing NUMBER: line 1, column 3.
C7_TrailingPlusFailsAtEnd ==
    (SumScenario /\ code = <<"3", "+">>) =>
        /\ ~result.ok
        /\ result.exc = "ParseError"
        /\ result.offset = 2
        /\ get_line_column_numbers(code, result.offset) = <<1, 3>>

NodeInfo(t, parent) ==
    [token_type |-> t.token_type, token_offset |-> t.token_offset,
     token_count |-> t.token_count, parent |-> parent]

RECURSIVE Walk(_, _, _)
RECURSIVE WalkChildren(_, _, _, _)
\* the nodes of t in tree order, each with the position of its parent
Walk(t, parent, acc) ==
    WalkChildren(t, 1, Len(acc) + 1, Append(acc, NodeInfo(t, parent)))
WalkChildren(t, i, parent, acc) ==
    IF i > Len(t.children) THEN acc
    ELSE WalkChildren(t, i + 1, parent, Walk(t.children[i], parent, acc))

RECURSIVE WalkTagged(_, _, _)
RECURSIVE WalkTaggedChildren(_, _, _, _)
\* the tagged nodes of t in tree order, each with the position (among the
\* tagged nodes) of its nearest tagged ancestor
WalkTagged(t, parent, acc) ==
    IF t.token_type = None
    THEN WalkTaggedChildren(t, 1, parent, acc)
    ELSE WalkTaggedChildren(t, 1, Len(acc) + 1, Append(acc, NodeInfo(t, parent)))
WalkTaggedChildren(t, i, parent, acc) ==
    IF i > Len(t.children) THEN acc
    ELSE WalkTaggedChildren(t, i + 1, parent, WalkTagged(t.children[i], parent, acc))

Leaf(s, o) == Tree(o, 1, s, <<>>)

\* C10: untagged-node elision of a raw tree with a tagged root leaves no
\* untagged node, keeps every tagged node once with its offset, count and
\* type, under its nearest tagged ancestor and in the same order; for
\* "3+4+5" it yields ROOT over NUMBER PLUS NUMBER PLUS NUMBER.
C10_UntaggedElision ==
    (TopParsed /\ tree # NoTree) =>
        LET out == prune_no_token_type(tree)
        IN  /\ \A n \in {out} \cup Descendants(out) : n.token_type # None
            /\ Walk(out, 0, <<>>) = WalkTagged(tree, 0, <<>>)
            /\ (SumScenario /\ code = SumCode) =>
                  out = Tree(0, 5, ROOT,
                             <<Leaf(NUMBER, 0), Leaf(PLUS, 1), Leaf(NUMBER, 2),
                               Leaf(PLUS, 3), Leaf(NUMBER, 4)>>)

C10_Witness ==
    /\ SumScenario /\ code = SumCode
    /\ tree # NoTree
    /\ \E n \in Descendants(tree) :
          n.token_type = None /\ Len(n.children) > 1

RECURSIVE WalkKept(_, _, _, _)
RECURSIVE WalkKeptChildren(_, _, _, _, _)
\* the nodes of t whose type is not in H, in tree order, each with the
\* position (among them) of its nearest kept ancestor
WalkKept(t, H, parent, acc) ==
    IF t.token_type \in H
    THEN WalkKeptChildren(t, H, 1, parent, acc)
    ELSE WalkKeptChildren(t, H, 1, Len(acc) + 1, Append(acc, NodeInfo(t, parent)))
WalkKeptChildren(t, H, i, parent, acc) ==
    IF i > Len(t.children) THEN acc
    ELSE WalkKeptChildren(t, H, i + 1, parent, WalkKept(t.children[i], H, parent, acc))

\* the walk of t with its root kept whatever its type
WalkKeptBelowRoot(t, H) == WalkKeptChildren(t, H, 1, 1, <<NodeInfo(t, 0)>>)

Symbols == {ROOT, ITEM, SIGN, NUMBER, PLUS}

\* C11: targeted pruning with a set H leaves no node of a type in H below
\* the root, keeps every other node once with its offset, count and type,
\* under its nearest kept ancestor and in the same order (the children of a
\* removed node take its place); with H empty the tree is unchanged; and
\* Parser.parse returns the elided tree pruned with pruned_non_terminals.
C11_TargetedPruning ==
    (TopParsed /\ tree # NoTree) =>
        LET T == prune_no_token_type(tree)
        IN  /\ \A H \in SUBSET Symbols :
                 \A t \in {T, tree} :
                    LET out == prune_by_token_types(t, H)
                    IN  /\ \A n \in Descendants(out) : n.token_type \notin H
                        /\ Walk(out, 0, <<>>) = WalkKeptBelowRoot(t, H)
                        /\ out.token_type = t.token_type
                        /\ (H = {} => out = t)
            /\ (pc = "old" /\ result.ok) =>
                  result.tree = prune_by_token_types(T, pruned)

C11_Witness ==
    /\ mode = "top" /\ pc = "old" /\ result.ok
    /\ pruned = {ITEM}
    /\ \E n \in Descendants(prune_no_token_type(tree)) :
          n.token_type = ITEM /\ Len(n.children) > 1
    /\ \E n \in Descendants(result.tree) : n.token_type = PLUS

\* Parser.parse lines 61-69: untagged-node elision, then targeted pruning
Pipeline(t, H) == prune_by_token_types(prune_no_token_type(t), H)

RECURSIVE Preorder(_)
RECURSIVE PreorderFrom(_, _)
\* type, offset and count of the nodes of t, in tree order
Preorder(t) ==
    <<[token_type |-> t.token_type, token_offset |-> t.token_offset,
       token_count |-> t.token_count]>> \o PreorderFrom(t, 1)
PreorderFrom(t, i) ==
    IF i > Len(t.children) THEN <<>>
    ELSE Preorder(t.children[i]) \o PreorderFrom(t, i + 1)

\* the nodes below the root of t, in tree order, without those of a type in H
KeptBelowRoot(t, H) ==
    LET Kept(n) == n.token_type \notin H
    IN  SelectSeq(Tail(Preorder(t)), Kept)

\* C12: the pruning pipeline applied to a tree it produced returns an equal
\* tree, for every set H; and each stage keeps the nodes it keeps in the
\* order they had.
C12_PipelineIdempotent ==
    (TopParsed /\ tree # NoTree) =>
        /\ \A H \in SUBSET Symbols :
              LET elided == prune_no_token_type(tree)
                  T == Pipeline(tree, H)
              IN  /\ Pipeline(T, H) = T
                  /\ Tail(Preorder(elided)) = KeptBelowRoot(tree, {None})
                  /\ Tail(Preorder(T)) = KeptBelowRoot(elided, H)
        /\ (pc = "old" /\ result.ok) =>
              /\ result.tree = Pipeline(tree, pruned)
              /\ Pipeline(result.tree, pruned) = result.tree

C12_Witness ==
    /\ mode = "top" /\ pc = "old" /\ result.ok
    /\ pruned = {ITEM}
    /\ result.tree # tree
    /\ Len(Preorder(result.tree)) < Len(Preorder(prune_no_token_type(tree)))
    /\ Len(Preorder(prune_no_token_type(tree))) < Len(Preorder(tree))

(***************************************************************************)
(* Shape of the raw trees (SpecParse).                                     *)
(***************************************************************************)
TerminalLeaf(n) ==
    n.children = <<>> /\ n.token_count = 1 /\ n.token_type \in Terminals

EmptyLeaf(n) == n.children = <<>> /\ n.token_count = 0

RECURSIVE TerminalLeafOffsets(_)
RECURSIVE TerminalLeafOffsetsFrom(_, _)
\* the token offsets of the terminal leaves of t, in tree order
TerminalLeafOffsets(t) ==
    IF TerminalLeaf(t) THEN <<t.token_offset>>
    ELSE TerminalLeafOffsetsFrom(t, 1)
TerminalLeafOffsetsFrom(t, i) ==
    IF i > Len(t.children) THEN <<>>
    ELSE TerminalLeafOffsets(t.children[i]) \o TerminalLeafOffsetsFrom(t, i + 1)

\* C13: in the raw tree of a successful parse of an expression at an offset,
\* every node's token count is the sum of its children's counts unless it is
\* a terminal leaf of count 1 or an empty leaf, every child's span lies in
\* its parent's span, and the terminal leaves in tree order are the tokens
\* offset, offset + 1, ..., offset + token_count - 1 of the root.
C13_RawTreeSpans ==
    (Parsed /\ result.ok) =>
        LET root == result.tree
        IN  /\ root.token_offset = offset
            /\ \A n \in {root} \cup Descendants(root) :
                  /\ \/ TerminalLeaf(n)
                     \/ EmptyLeaf(n)
                     \/ n.token_count = SumCounts(n.children, Len(n.children))
                  /\ \A i \in 1..Len(n.children) :
                        /\ n.token_offset <= n.children[i].token_offset
                        /\ n.children[i].token_offset + n.children[i].token_count
                              <= n.token_offset + n.token_count
            /\ TerminalLeafOffsets(root) =
                  [i \in 1..root.token_count |-> offset + i - 1]
            /\ offset + root.token_count <= Len(tokens)

C13_Witness ==
    /\ Parsed /\ result.ok
    /\ offset > 0
    /\ result.tree.token_count > 1
    /\ \E n \in Descendants(result.tree) : EmptyLeaf(n)
    /\ \E n \in Descendants(result.tree) : Len(n.children) > 1

(***************************************************************************)
(* Progress of tokenize (SpecTokenize).                                    *)
(***************************************************************************)
\* the rules that match a non-empty prefix of the input at offset off
MatchingRules(off) ==
    {i \in 1..Len(terminal_rules) :
        RegexMatch(terminal_rules[i].regex, code, off) >= 1}

\* the first of them in declaration order
FirstMatching(off) ==
    CHOOSE i \in MatchingRules(off) : \A j \in MatchingRules(off) : i <= j

RECURSIVE MatchesFrom(_)
\* the successive first matches from offset off on, suppressed or not
MatchesFrom(off) ==
    IF off >= Len(code) \/ MatchingRules(off) = {} THEN <<>>
    ELSE LET rule == terminal_rules[FirstMatching(off)]
             length == RegexMatch(rule.regex, code, off)
         IN  <<[type |-> rule.type, offset |-> off, length |-> length]>>
             \o MatchesFrom(off + length)

EndOf(ms, k) == IF k = 0 THEN 0 ELSE ms[k].offset + ms[k].length

Emitted(ms) ==
    LET NotSuppressed(m) == m.type \notin pruned
    IN  SelectSeq(ms, NotSuppressed)

\* C14: at every step of tokenize the matches taken so far are the first
\* matching rule's non-empty match at each offset, each advancing the offset
\* by its length; the emitted tokens are those of them whose type is not
\* suppressed, so they have increasing offsets, do not overlap and have
\* length >= 1; no rule before the one being tried matched at the offset;
\* and when tokenize returns the matches cover the input without gaps.
C14_TokenizeProgress ==
    (mode = "tokenize") =>
        LET ms == MatchesFrom(0)
        IN  /\ \E k \in 0..Len(ms) :
                  /\ tk_offset = EndOf(ms, k)
                  /\ tk_tokens = Emitted(SubSeq(ms, 1, k))
            /\ \A i \in 1..Len(tk_tokens) :
                  /\ tk_tokens[i].length >= 1
                  /\ tk_tokens[i].type \notin pruned
                  /\ tk_tokens[i].offset + tk_tokens[i].length <= tk_offset
                  /\ i > 1 => tk_tokens[i - 1].offset + tk_tokens[i - 1].length
                                 <= tk_tokens[i].offset
            /\ \A k \in 1..Len(ms) :
                  /\ ms[k].offset = EndOf(ms, k - 1)
                  /\ ms[k].length >= 1
            /\ (pc = "for") =>
                  \A j \in 1..(tk_rule - 1) : j \notin MatchingRules(tk_offset)
            /\ (pc = "returned") =>
                  /\ tk_offset = Len(code)
                  /\ EndOf(ms, Len(ms)) = Len(code)
                  /\ tk_tokens = Emitted(ms)

C14_Witness ==
    /\ mode = "tokenize" /\ pc = "returned"
    /\ pruned = {WHITESPACE}
    /\ Len(tk_tokens) >= 2
    /\ Len(MatchesFrom(0)) > Len(tk_tokens)
    /\ \E off \in 0..Len(code) : Cardinality(MatchingRules(off)) > 1

(***************************************************************************)
(* Frame of a top-level parse (SpecTop).                                   *)
(***************************************************************************)
\* the rule table as it was built for the root expression expr
RulesAsBuilt == [n \in DOMAIN rules |-> Grammar(expr)[n]]

\* a second call with the rule table and the tokens the first one left
SecondCall ==
    IF pc = "old" THEN Parser_parse(keys, tokens, rules, pruned)
    ELSE parse_generic(keys, tokens, code, rules,
                       IF pruned = {} THEN NoSet ELSE pruned, NoSet)

\* C15: a top-level parse call, successful or not, leaves the rule table
\* with every expression and its symbol tag, and the token list, as they
\* were, and a second call with them returns an equal result.
C15_ParseLeavesInputsUnchanged ==
    TopParsed =>
        /\ rules = RulesAsBuilt
        /\ tokens = tokenize(code, CoveringRules, {WHITESPACE})
        /\ SecondCall = result

====
